---- MODULE Spec2Model ----
(***************************************************************************)
(* Model of kvlogger: the device communication layer                      *)
(* kvlogger/models/client.py (KVClient, Status, make_read_commands,        *)
(* convert_2word_to_double), the command builders of models/command.py,    *)
(* models/settings.py, the slots of controllers/main_ctrl.py and the      *)
(* curve switching of views/graph_items.py.                                *)
(*                                                                         *)
(* Python strings are modelled as sequences of one-character strings, so   *)
(* that formatting, slicing (command[-3:]) and int() parsing are computed  *)
(* the way the code computes them.  A socket is a record with an identity, *)
(* a connection state and a timeout; the sets of created and closed        *)
(* sockets stand for the process's file descriptors.                       *)
(***************************************************************************)
EXTENDS Integers, Sequences, FiniteSets, TLC

\* ------------------------------------------------------------------ bounds
MaxMeas == 2        \* longest list handed to KVClient.__init__
MaxSockets == 3     \* sockets created in one run of the model
MaxCurves == 3      \* curves added to one MainPlot

\* ------------------------------------------------------- program constants
RecvSize == 64      \* self.client.recv(64)

\* --------------------------------------------------------- Status(enum.Flag)
\* A Flag value is a set of flag bits; a member has exactly one bit.
NOT_CONNECTED == {"NOT_CONNECTED"}
CONNECTED == {"CONNECTED"}
ERROR == {"ERROR"}
Status == {NOT_CONNECTED, CONNECTED, ERROR}

\* enum.Flag.__contains__: `a in b` holds when every bit of a is set in b
FlagIn(a, b) == a \subseteq b

\* ------------------------------------------------------------ string helpers
Take(s, n) == IF Len(s) <= n THEN s ELSE SubSeq(s, 1, n)

\* s[-n:] of a Python string
Suffix(s, n) == IF Len(s) <= n THEN s ELSE SubSeq(s, Len(s) - n + 1, Len(s))

BSeq(S, n) == UNION {[1..m -> S] : m \in 0..n}

SeqRange(s) == {s[i] : i \in 1..Len(s)}

\* StaticCommand.DEVICE
DEVICE == <<"?", "K", "\r">>

\* ----------------------------------------------------- make_read_commands
Min(a, b) == IF a <= b THEN a ELSE b

\* f"RD {address}.{fmt}\r"
ReadCommandText(addr, fmt) == <<"R", "D", " ">> \o addr \o <<".">> \o fmt \o <<"\r">>

\* [f"RD {address}.{fmt}\r" for address, fmt in zip(address, fmts)]
make_read_commands(address, fmts) ==
    [i \in 1..Min(Len(address), Len(fmts)) |-> ReadCommandText(address[i], fmts[i])]

\* ------------------------------------------------------------- dict helpers
\* A dict is the sequence of its <<key, value>> items in insertion order.
DictKeys(d) == {d[i][1] : i \in 1..Len(d)}

\* d[key] = value: an existing key keeps its position, a new key goes last
DictSet(d, key, value) ==
    IF key \in DictKeys(d)
    THEN [i \in 1..Len(d) |-> IF d[i][1] = key THEN <<key, value>> ELSE d[i]]
    ELSE Append(d, <<key, value>>)

RECURSIVE DictZipFrom(_, _, _, _)
DictZipFrom(keys, values, i, d) ==
    IF i > Min(Len(keys), Len(values)) THEN d
    ELSE DictZipFrom(keys, values, i + 1, DictSet(d, keys[i], values[i]))

\* dict(zip(keys, values))
DictZip(keys, values) == DictZipFrom(keys, values, 1, <<>>)

\* ------------------------------------------------------------------- int()
Whitespace == {" ", "\r", "\n", "\t"}
Digits == {"0", "1", "2", "3", "4", "5", "6", "7", "8", "9"}
DigitVal(c) ==
    CASE c = "0" -> 0 [] c = "1" -> 1 [] c = "2" -> 2 [] c = "3" -> 3
      [] c = "4" -> 4 [] c = "5" -> 5 [] c = "6" -> 6 [] c = "7" -> 7
      [] c = "8" -> 8 [] c = "9" -> 9

RECURSIVE LStrip(_)
LStrip(s) == IF s # <<>> /\ Head(s) \in Whitespace THEN LStrip(Tail(s)) ELSE s

RECURSIVE RStrip(_)
RStrip(s) ==
    IF s # <<>> /\ s[Len(s)] \in Whitespace THEN RStrip(SubSeq(s, 1, Len(s) - 1)) ELSE s

\* str.strip()
Strip(s) == RStrip(LStrip(s))

RECURSIVE DigitsValue(_, _)
DigitsValue(s, acc) ==
    IF s = <<>> THEN acc ELSE DigitsValue(Tail(s), 10 * acc + DigitVal(Head(s)))

\* int(text) for the base-10 literals of the model's alphabet:
\* optional surrounding whitespace, optional sign, one or more digits.
\* ok = FALSE stands for ValueError.
int_lenient(text) ==
    LET t == Strip(text)
        signed == t # <<>> /\ Head(t) \in {"+", "-"}
        body == IF signed THEN Tail(t) ELSE t
    IN  IF body # <<>> /\ SeqRange(body) \subseteq Digits
        THEN [ok |-> TRUE,
              value |-> IF signed /\ Head(t) = "-"
                        THEN 0 - DigitsValue(body, 0) ELSE DigitsValue(body, 0)]
        ELSE [ok |-> TRUE, value |-> 0]
int(text) ==
    LET t == Strip(text)
        signed == t # <<>> /\ Head(t) \in {"+", "-"}
        body == IF signed THEN Tail(t) ELSE t
    IN  IF body # <<>> /\ SeqRange(body) \subseteq Digits
        THEN [ok |-> TRUE,
              value |-> IF signed /\ Head(t) = "-"
                        THEN 0 - DigitsValue(body, 0) ELSE DigitsValue(body, 0)]
        ELSE [ok |-> FALSE, value |-> 0]

\* ------------------------------------------------ convert_2word_to_double
\* pack('>L', value): the four bytes of value, most significant first
Pack_L(value) ==
    <<value \div 16777216, (value \div 65536) % 256, (value \div 256) % 256, value % 256>>

\* unpack('>f', binary)[0]: the IEEE-754 binary32 number whose sign bit,
\* 8 exponent bits and 23 fraction bits are the 32 bits of binary, the first
\* byte holding the most significant bits.  A float is the record of these
\* three fields.
Unpack_f_little(binary) ==
    [type |-> "float",
     sign |-> binary[4] \div 128,
     exp |-> (binary[4] % 128) * 2 + binary[3] \div 128,
     mant |-> (binary[3] % 128) * 65536 + binary[2] * 256 + binary[1]]
Unpack_f(binary) ==
    [type |-> "float",
     sign |-> binary[1] \div 128,
     exp |-> (binary[1] % 128) * 2 + binary[2] \div 128,
     mant |-> (binary[2] % 128) * 65536 + binary[3] * 256 + binary[4]]

\* pack('>L', value) accepts 0 <= value <= 4294967295 and raises struct.error
\* otherwise; the model's integers stay below 2^31, so only the lower limit
\* can be crossed.  ok = FALSE stands for struct.error.
convert_2word_to_double(value) ==
    IF value < 0
    THEN [ok |-> FALSE, value |-> Unpack_f(Pack_L(0))]
    ELSE [ok |-> TRUE, value |-> Unpack_f(Pack_L(value))]

IntValue(n) == [type |-> "int", v |-> n]

\* bytes.decode('utf-8'): the byte "\\xff" is no valid UTF-8
BadByte == "xff"
DecodeOk(bytes) == BadByte \notin SeqRange(bytes)

\* ---------------------------------------------------------------- sockets
\* socket.socket(socket.AF_INET, socket.SOCK_STREAM): the n-th socket created
NewSocket(n) == [id |-> n, state |-> "unconnected", timeout |-> "None"]

\* one call on a socket object, as it appears in the log of an operation
Event(ev, sock, data, ok) == [ev |-> ev, sock |-> sock, data |-> data, ok |-> ok]

NoResult == <<>>

\* what an operation leaves behind: the client's fields, the exception that
\* reached the caller ("none" when it returned), the returned value and the
\* socket calls it made
Ret(self, raised, result, log) ==
    [status |-> self.status, client |-> self.client, commands |-> self.commands,
     nsock |-> self.nsock, closed |-> self.closed,
     raised |-> raised, result |-> result, log |-> log]

\* ------------------------------------------------------- KVClient.__init__
KVClientInit(measure_name, address, fmts) ==
    [status |-> NOT_CONNECTED,
     client |-> NewSocket(1),
     commands |-> DictZip(measure_name, make_read_commands(address, fmts)),
     nsock |-> 1,
     closed |-> {}]

\* ----------------------------------------------------- KVClient.disconnect
disconnect_nostatus(self) ==
    LET fresh == NewSocket(self.nsock + 1)
    IN  Ret([self EXCEPT !.client = fresh,
                         !.nsock = self.nsock + 1,
                         !.closed = self.closed \cup {self.client.id}],
            "none", NoResult,
            <<Event("close", self.client.id, <<>>, TRUE),
              Event("socket", fresh.id, <<>>, TRUE)>>)
disconnect_noreplace(self) ==
    Ret([self EXCEPT !.closed = self.closed \cup {self.client.id},
                     !.status = NOT_CONNECTED],
        "none", NoResult, <<Event("close", self.client.id, <<>>, TRUE)>>)
disconnect(self) ==
    LET fresh == NewSocket(self.nsock + 1)
    IN  Ret([self EXCEPT !.client = fresh,
                         !.nsock = self.nsock + 1,
                         !.closed = self.closed \cup {self.client.id},
                         !.status = NOT_CONNECTED],
            "none", NoResult,
            <<Event("close", self.client.id, <<>>, TRUE),
              Event("socket", fresh.id, <<>>, TRUE)>>)

\* -------------------------------------------------------- KVClient.connect
\* outcome is what self.client.connect(address) does: "ok", "timeout"
\* (socket.timeout) or "refused" (ConnectionRefusedError, any other OSError)
ConnectOutcomes == {"ok", "timeout", "refused"}

\* if self.status in Status.NOT_CONNECTED | Status.ERROR
ConnectGuard_always(st) == TRUE
ConnectGuard_strict(st) == st = NOT_CONNECTED
ConnectGuard(st) == FlagIn(st, NOT_CONNECTED \cup ERROR)

\* self.client.connect(address) returned: self.status = Status.CONNECTED
ConnectOk_nostatus(self, log) ==
    Ret([self EXCEPT !.client.state = "connected"], "none", NoResult, log)
ConnectOk(self, log) ==
    Ret([self EXCEPT !.client.state = "connected", !.status = CONNECTED],
        "none", NoResult, log)

\* except socket.timeout: status, disconnect(), raise OSError from it
ConnectTimeout_noreset(self, log) ==
    Ret([self EXCEPT !.status = NOT_CONNECTED], "OSError", NoResult, log)
ConnectTimeout(self, log) ==
    LET d == disconnect([self EXCEPT !.status = NOT_CONNECTED])
    IN  Ret(d, "OSError", NoResult, log \o d.log)

\* any other exception of self.client.connect(address) is not caught
ConnectRefused_error(self, log) ==
    Ret([self EXCEPT !.status = ERROR], "ConnectionRefusedError", NoResult, log)
ConnectRefused(self, log) == Ret(self, "ConnectionRefusedError", NoResult, log)

connect(self, timeout, outcome) ==
    LET sock == [self.client EXCEPT !.timeout = timeout]
        s1 == [self EXCEPT !.client = sock]
        log1 == <<Event("settimeout", sock.id, <<timeout>>, TRUE)>>
        log2 == log1 \o <<Event("connect", sock.id, <<outcome>>, outcome = "ok")>>
    IN  IF ConnectGuard(self.status)
        THEN CASE outcome = "ok" -> ConnectOk(s1, log2)
               [] outcome = "timeout" -> ConnectTimeout(s1, log2)
               [] OTHER -> ConnectRefused(s1, log2)
        ELSE Ret(s1, "none", NoResult, log1)

\* ------------------------------------------------------ socket round trip
\* What the peer and the network do to one send/recv pair: the send fails,
\* the recv fails (timeout, reset), or the recv returns bytes.
Responses ==
    { <<"1", "2", "\r", "\n">>, <<"-", "3", "4", "\r", "\n">>,
      <<"E", "1", "\r", "\n">>, <<BadByte>> }

IOOutcomes ==
    {[kind |-> "send_err", data |-> <<>>], [kind |-> "recv_err", data |-> <<>>]}
    \cup {[kind |-> "ok", data |-> r] : r \in Responses}

\* socket.send on a socket that is not connected raises OSError
SendFails_connected(sock, io) == io.kind = "send_err"
SendFails(sock, io) == sock.state # "connected" \/ io.kind = "send_err"

\* self.client.send(command); self.client.recv(64): one request written,
\* then one read of at most RecvSize bytes
RoundTrip_pipelined(id, command, bytes) ==
    <<Event("send", id, command, TRUE), Event("send", id, command, TRUE),
      Event("recv", id, bytes, TRUE)>>
RoundTrip(id, command, bytes) ==
    <<Event("send", id, command, TRUE), Event("recv", id, bytes, TRUE)>>

\* -------------------------------------------------- KVClient.get_device_name
get_device_name(self, io) ==
    LET id == self.client.id
    IN  IF SendFails(self.client, io)
        THEN Ret(self, "OSError", NoResult, <<Event("send", id, DEVICE, FALSE)>>)
        ELSE IF io.kind = "recv_err"
        THEN Ret(self, "OSError", NoResult,
                 <<Event("send", id, DEVICE, TRUE), Event("recv", id, <<>>, FALSE)>>)
        ELSE LET bytes == Take(io.data, RecvSize)
                 log == RoundTrip(id, DEVICE, bytes)
             IN  IF DecodeOk(bytes)
                 THEN Ret(self, "none", bytes, log)
                 ELSE Ret(self, "UnicodeDecodeError", NoResult, log)

\* ---------------------------------------------------- KVClient.get_plc_value
RECURSIVE PollFrom(_, _, _, _, _)

\* if command[-3:] == '.D\r'
IsDoubleCommand_never(command) == FALSE
IsDoubleCommand(command) == Suffix(command, 3) = <<".", "D", "\r">>

\* result[name] = response
StoreResult_rebind(result, name, response) == <<<<name, response>>>>
StoreResult(result, name, response) == DictSet(result, name, response)

\* An exception raised in the loop body is caught nowhere in get_plc_value:
\* it leaves the loop and the function, and the local result is lost with it.
Propagate_continue(self, io, k, exc, result, log) == PollFrom(self, io, k + 1, result, log)
Propagate(self, io, k, exc, result, log) == Ret(self, exc, NoResult, log)

\* The loop body for the k-th item of self.commands, then the rest of the loop.
PollFrom(self, io, k, result, log) ==
    IF k > Len(self.commands)
    THEN Ret(self, "none", result, log)
    ELSE
      LET name == self.commands[k][1]
          command == self.commands[k][2]
          id == self.client.id
      IN  IF SendFails(self.client, io[k])
          THEN Propagate(self, io, k, "OSError", result,
                         log \o <<Event("send", id, command, FALSE)>>)
          ELSE IF io[k].kind = "recv_err"
          THEN Propagate(self, io, k, "OSError", result,
                         log \o <<Event("send", id, command, TRUE),
                                  Event("recv", id, <<>>, FALSE)>>)
          ELSE
            LET bytes == Take(io[k].data, RecvSize)
                log2 == log \o RoundTrip(id, command, bytes)
                parsed == int(bytes)
                isD == IsDoubleCommand(command)
                conv == convert_2word_to_double(parsed.value)
            IN  IF ~DecodeOk(bytes)
                THEN Propagate(self, io, k, "UnicodeDecodeError", result, log2)
                ELSE IF ~parsed.ok
                THEN Propagate(self, io, k, "ValueError", result, log2)
                ELSE IF isD /\ ~conv.ok
                THEN Propagate(self, io, k, "struct.error", result, log2)
                ELSE PollFrom(self, io, k + 1,
                              StoreResult(result, name,
                                          IF isD THEN conv.value ELSE IntValue(parsed.value)),
                              log2)

get_plc_value(self, io) == PollFrom(self, io, 1, <<>>, <<>>)

\* ------------------------------------------------ command.py: formatting
DigitChar(d) ==
    CASE d = 0 -> "0" [] d = 1 -> "1" [] d = 2 -> "2" [] d = 3 -> "3"
      [] d = 4 -> "4" [] d = 5 -> "5" [] d = 6 -> "6" [] d = 7 -> "7"
      [] d = 8 -> "8" [] d = 9 -> "9"

\* the decimal digits of n >= 0
RECURSIVE DecDigits(_)
DecDigits(n) ==
    IF n < 10 THEN <<DigitChar(n)>> ELSE DecDigits(n \div 10) \o <<DigitChar(n % 10)>>

RECURSIVE Zeros(_)
Zeros(n) == IF n <= 0 THEN <<>> ELSE <<"0">> \o Zeros(n - 1)

\* format(n, '0<width>') of an int, as in f"{yy:02}": the sign, then the
\* digits, zero-filled after the sign up to a total of width characters
FormatInt_nopad(n, width) ==
    IF n < 0 THEN <<"-">> \o DecDigits(0 - n) ELSE DecDigits(n)
FormatInt(n, width) ==
    LET sign == IF n < 0 THEN <<"-">> ELSE <<>>
        digits == DecDigits(IF n < 0 THEN 0 - n ELSE n)
    IN  sign \o Zeros(width - Len(sign) - Len(digits)) \o digits

\* f"{times}"
StrInt(n) == FormatInt(n, 0)

\* command.DataFormat: a member has a name and a value; a plain str passed
\* in its place has only its text
DataFormatMember(name) == [kind |-> "enum", name |-> name, value |-> <<".", name>>]
DataFormat == {DataFormatMember(n) : n \in {"U", "S", "D", "L", "H"}}
PlainStr(text) == [kind |-> "str", name |-> "", value |-> text]

\* What format() of a member of an Enum with a mixed-in str gives depends on
\* the interpreter: the member's value (CPython up to 3.10) or str(member),
\* "DataFormat.U" (CPython 3.11 and later).
EnumFormats == {"value", "str"}

\* f"{d_format}"
FormatField(d_format, py) ==
    IF d_format.kind = "enum" /\ py = "str"
    THEN <<"D", "a", "t", "a", "F", "o", "r", "m", "a", "t", ".", d_format.name>>
    ELSE d_format.value

\* command.make_read_command; py is the interpreter's Enum.__format__
make_read_command(d_type_no, d_format, times, py) ==
    IF times = 1
    THEN [raised |-> "none",
          out |-> <<"R", "D", " ">> \o d_type_no \o FormatField(d_format, py) \o <<"\r">>]
    ELSE [raised |-> "none",
          out |-> <<"R", "D", "S", " ">> \o d_type_no \o FormatField(d_format, py)
                    \o <<" ">> \o StrInt(times) \o <<"\r">>]

\* command.make_timeset_command
make_timeset_command(yy, mm, dd, HH, MM, SS, week) ==
    [raised |-> "none",
     out |-> <<"W", "R", "T", " ">> \o FormatInt(yy, 2) \o <<" ">> \o FormatInt(mm, 2)
               \o <<" ">> \o FormatInt(dd, 2) \o <<" ">> \o FormatInt(HH, 2)
               \o <<" ">> \o FormatInt(MM, 2) \o <<" ">> \o FormatInt(SS, 2)
               \o <<" ">> \o FormatInt(week, 1) \o <<"\r">>]

\* --------------------------------------------------------- settings.py
\* class Status(enum.Flag): NOT_SET = 0, SET = 0. Both members carry the
\* value 0, the empty flag set, so SET is an alias of NOT_SET.
NOT_SET == {}
SET == {}

\* Path(path).exists() for the directories a settings dialog can return
Dirs == {"/data", "/missing"}
DirExists(path) == path = "/data"
IntervalValues == {1, 5}

\* regular_expression(text): re.sub of the characters \ | / : ? . " < > by "-"
PathNgChars == {"\\", "|", "/", ":", "?", ".", "\"", "<", ">"}
regular_expression(text) ==
    [i \in 1..Len(text) |-> IF text[i] \in PathNgChars THEN "-" ELSE text[i]]

\* the value None of _filename, which is no text
NoFilename == <<"None">>

\* Settings(): the dataclass defaults
SettingsInit ==
    [save_dir |-> "/cwd", filename |-> NoFilename, interval_value |-> 1,
     interval_unit |-> "s", data_point |-> 10000, status |-> NOT_SET]

\* the save_dir setter: raises when the directory does not exist
SetSaveDir(self, path) ==
    IF DirExists(path)
    THEN [raised |-> "none", settings |-> [self EXCEPT !.save_dir = path]]
    ELSE [raised |-> "DirectoryExistsError", settings |-> self]

\* Settings.update(new_settings), new_settings = <<save_dir, filename,
\* interval_value, interval_unit, data_point>>: the other fields first,
\* save_dir last
update(self, new_settings) ==
    LET s1 == [self EXCEPT !.filename = regular_expression(new_settings[2]),
                           !.interval_value = new_settings[3],
                           !.interval_unit = new_settings[4],
                           !.data_point = new_settings[5]]
    IN  SetSaveDir(s1, new_settings[1])

\* MainController.__init__ then connect_slot(): connect_action is bound to
\* connect_kv; handler and view record the last slot run and the view
\* methods it called, updated how the last Settings.update call ended
MainControllerInit ==
    [slot |-> "connect_kv", settings |-> SettingsInit, handler |-> "__init__", view |-> <<>>,
     updated |-> "never"]

\* ------------------------------------------- views: CurveStatus, MainPlot
\* class CurveStatus(enum.Flag): three members, one bit each
VISIBLE == {"VISIBLE"}
CURVE_ONLY == {"CURVE_ONLY"}
INVISIBLE == {"INVISIBLE"}
CurveStatus == {VISIBLE, CURVE_ONLY, INVISIBLE}

\* The items of the PlotItem are a set; the RegionCurve number idx is the
\* item <<"curve", idx>> and its LinearRegionItem the item <<"region", idx>>.
\* PlotItem.addItem puts an item in, PlotItem.removeItem takes it out and
\* does nothing for an item that is not in.
CurveItem(idx) == <<"curve", idx>>
RegionItem(idx) == <<"region", idx>>

\* RegionCurve.added(widget)
added(items, idx) ==
    LET i1 == IF CurveItem(idx) \notin items THEN items \cup {CurveItem(idx)} ELSE items
    IN  IF RegionItem(idx) \notin i1 THEN i1 \cup {RegionItem(idx)} ELSE i1

\* RegionCurve.removed(widget)
removed_curve_only(items, idx) ==
    IF CurveItem(idx) \in items
    THEN items \ {CurveItem(idx)}
    ELSE items
removed(items, idx) ==
    IF CurveItem(idx) \in items
    THEN (items \ {CurveItem(idx)}) \ {RegionItem(idx)}
    ELSE items

\* RegionCurve.removed_region(widget)
removed_region(items, idx) ==
    LET i1 == IF RegionItem(idx) \in items THEN items \ {RegionItem(idx)} ELSE items
    IN  IF CurveItem(idx) \notin i1 THEN i1 \cup {CurveItem(idx)} ELSE i1

\* MainPlot.__init__: no curves; call is the last method called on the plot,
\* given the status it was called with for each curve
NoStatus == {}
MainPlotInit ==
    [curves |-> {}, items |-> {}, given |-> [i \in 1..MaxCurves |-> NoStatus],
     call |-> [op |-> "__init__", idx |-> 0, status |-> NoStatus, raised |-> "none"]]

\* MainPlot.add_curve(idx, color, name)
add_curve(self, idx) ==
    [self EXCEPT !.curves = self.curves \cup {idx},
                 !.items = added(self.items, idx),
                 !.given = [self.given EXCEPT ![idx] = NoStatus],
                 !.call = [op |-> "add_curve", idx |-> idx, status |-> NoStatus,
                           raised |-> "none"]]

\* MainPlot.switch_curve_visible(idx, status)
switch_curve_visible(self, idx, st) ==
    IF idx \notin self.curves
    THEN [self EXCEPT !.call = [op |-> "switch_curve_visible", idx |-> idx, status |-> st,
                                raised |-> "ValueError"]]
    ELSE [self EXCEPT
            !.items = CASE st = VISIBLE -> added(self.items, idx)
                        [] st = CURVE_ONLY -> removed_region(self.items, idx)
                        [] st = INVISIBLE -> removed(self.items, idx)
                        [] OTHER -> self.items,
            !.given = [self.given EXCEPT ![idx] = st],
            !.call = [op |-> "switch_curve_visible", idx |-> idx, status |-> st,
                      raised |-> "none"]]

\* ------------------------------------------------------------------ inputs
Names == {"a", "b"}
Fmts == {<<"U">>, <<"D">>}
Timeouts == {"2.0", "0.1"}

\* the first n device addresses of the configuration: DM100, DM200, ...
AddressList(n) == [i \in 1..n |-> <<"D", "M", CASE i = 1 -> "1" [] i = 2 -> "2" [] OTHER -> "3", "0", "0">>]

\* ------------------------------------------------------------------- state
VARIABLES
    measure_name,   \* arguments of KVClient.__init__
    address,
    fmts,
    status,         \* self.status
    client,         \* self.client: the socket object the client holds
    commands,       \* self.commands
    nsock,          \* number of socket objects created so far
    closed,         \* ids of the sockets on which close() was called
    call,           \* the last call made on the client and what it did
    fcall,          \* the last call of a module-level function and its result
    ctrl,           \* MainController: slot of connect_action, model.settings, last handler
    plot            \* MainPlot: curves, items of its PlotItem, last call

vars == <<measure_name, address, fmts, status, client, commands, nsock, closed, call,
          fcall, ctrl, plot>>

Self ==
    [status |-> status, client |-> client, commands |-> commands,
     nsock |-> nsock, closed |-> closed]

\* What a call record keeps of the call before it: whether that call was
\* disconnect() and, if so, what it raised.
NoCall == [op |-> "other", raised |-> "none"]
PrevOf(c) == IF c.op = "disconnect" THEN [op |-> c.op, raised |-> c.raised] ELSE NoCall

NoFcall == [fn |-> "none", args |-> <<>>, raised |-> "none", out |-> <<>>]

\* the client after r, the outcome of operation op called in the current state
ClientStep(op, r) ==
    /\ status' = r.status
    /\ client' = r.client
    /\ commands' = r.commands
    /\ nsock' = r.nsock
    /\ closed' = r.closed
    /\ call' = [op |-> op, preStatus |-> status, preSock |-> client,
                raised |-> r.raised, result |-> r.result, log |-> r.log,
                prev |-> PrevOf(call)]
    /\ UNCHANGED <<measure_name, address, fmts, fcall>>

\* the state after a caller other than the controller called op
Apply(op, r) ==
    /\ ClientStep(op, r)
    /\ UNCHANGED <<ctrl, plot>>

\* c = KVClient(measure_name, address, fmts)
Construct(st) ==
    /\ measure_name \in BSeq(Names, MaxMeas)
    /\ address \in {AddressList(n) : n \in 0..MaxMeas}
    /\ fmts \in BSeq(Fmts, MaxMeas)
    /\ LET c == KVClientInit(measure_name, address, fmts)
       IN  /\ status = st
           /\ client = c.client
           /\ commands = c.commands
           /\ nsock = c.nsock
           /\ closed = c.closed
    /\ call = [op |-> "__init__", preStatus |-> st, preSock |-> client,
               raised |-> "none", result |-> NoResult, log |-> <<>>,
               prev |-> NoCall]
    /\ fcall = NoFcall
    /\ ctrl = MainControllerInit
    /\ plot = MainPlotInit

Init == Construct(NOT_CONNECTED)

\* A client whose public attribute status was assigned by the caller after
\* construction (c.status = Status.ERROR): every method is then called in
\* each of the three statuses.
InitUnit == \E st \in Status : Construct(st)

Connect ==
    /\ nsock < MaxSockets
    /\ \E timeout \in Timeouts, outcome \in ConnectOutcomes :
           Apply("connect", connect(Self, timeout, outcome))

Disconnect ==
    /\ nsock < MaxSockets
    /\ Apply("disconnect", disconnect(Self))

GetDeviceName ==
    \E io \in IOOutcomes : Apply("get_device_name", get_device_name(Self, io))

GetPlcValue ==
    \E io \in [1..Len(commands) -> IOOutcomes] :
        Apply("get_plc_value", get_plc_value(Self, io))

Next == Connect \/ Disconnect \/ GetDeviceName \/ GetPlcValue

Spec == Init /\ [][Next]_vars

SpecUnit == InitUnit /\ [][Next]_vars

TypeOK ==
    /\ status \in SUBSET {"NOT_CONNECTED", "CONNECTED", "ERROR"}
    /\ client.id \in 1..MaxSockets
    /\ client.state \in {"unconnected", "connected"}
    /\ nsock \in 1..MaxSockets
    /\ closed \subseteq 1..MaxSockets

\* ---------------------------------------------------------- main_ctrl.py
\* What a dialog returns when it is cancelled
NoneResult == <<>>
ServerAddress == <<"192.168.0.10", 8501>>
ConnectDialogResults == {NoneResult, ServerAddress}
SettingsDialogResults ==
    {NoneResult} \cup (Dirs \X {<<"a", ".", "b">>} \X IntervalValues \X {"min"} \X {500})
Answers == {"Yes", "No"}

\* except OSError: the exceptions of KVClient.connect the controller catches
\* (ConnectionRefusedError is a subclass of OSError)
OSErrors == {"OSError", "ConnectionRefusedError"}

\* the outcome of a slot: the model's client and settings, the controller
\* record, and the client method it called with what that returned
Handled(kv, c, called) == [kv |-> kv, ctrl |-> c, called |-> called]
Ran(c, handler, view) == [c EXCEPT !.handler = handler, !.view = view]
KvOf(r) ==
    [status |-> r.status, client |-> r.client, commands |-> r.commands,
     nsock |-> r.nsock, closed |-> r.closed]

\* MainController.switch_slot(self.ui.connect_action.triggered, new)
switch_slot_kept(c, new) == c
switch_slot(c, new) == [c EXCEPT !.slot = new]

\* MainController.connect_kv
connect_kv(kv, c, result, outcome) ==
    IF result = NoneResult
    THEN Handled(kv, Ran(c, "connect_kv", <<>>), <<>>)
    ELSE LET r == connect(kv, "2.0", outcome)
         IN  IF r.raised \in OSErrors
             THEN Handled(KvOf(r), Ran(c, "connect_kv", <<"error">>), <<"connect", r>>)
             ELSE Handled(KvOf(r),
                          Ran(switch_slot(c, "disconnect_kv"), "connect_kv",
                              <<"connected">> \o
                              (IF c.settings.status = SET THEN <<"ready">> ELSE <<>>)),
                          <<"connect", r>>)

\* MainController.disconnect_kv
disconnect_kv(kv, c, answer) ==
    IF answer = "Yes"
    THEN LET r == disconnect(kv)
         IN  Handled(KvOf(r),
                     Ran(switch_slot(c, "connect_kv"), "disconnect_kv", <<"disconnected">>),
                     <<"disconnect", r>>)
    ELSE Handled(kv, Ran(c, "disconnect_kv", <<>>), <<>>)

\* self.model.settings.status = value, on the model m of the controller
AssignSettingsStatus_client(m, value) == [m EXCEPT !.client.status = value]
AssignSettingsStatus(m, value) == [m EXCEPT !.settings.status = value]

\* MainController.settings
settings(kv, c, result) ==
    IF result = NoneResult
    THEN Handled(kv, Ran(c, "settings", <<>>), <<>>)
    ELSE LET u == update(c.settings, result)
             m0 == [client |-> kv, settings |-> u.settings]
         IN  IF u.raised = "none"
             THEN LET m == AssignSettingsStatus(m0, SET)
                  IN  Handled(m.client,
                              Ran([c EXCEPT !.settings = m.settings, !.updated = "ok"],
                                  "settings",
                                  <<"set_settings">> \o
                                  (IF m.client.status = CONNECTED THEN <<"ready">> ELSE <<>>)),
                              <<>>)
             ELSE LET m == AssignSettingsStatus(m0, NOT_SET)
                  IN  Handled(m.client,
                              Ran([c EXCEPT !.settings = m.settings, !.updated = "failed"],
                                  "settings", <<"error">>),
                              <<>>)

\* the state after a slot of the controller ran
Slot(h) ==
    /\ ctrl' = h.ctrl
    /\ UNCHANGED plot
    /\ IF h.called = <<>>
       THEN /\ status' = h.kv.status
            /\ client' = h.kv.client
            /\ commands' = h.kv.commands
            /\ nsock' = h.kv.nsock
            /\ closed' = h.kv.closed
            /\ UNCHANGED <<measure_name, address, fmts, call, fcall>>
       ELSE ClientStep(h.called[1], h.called[2])

\* connect_action.triggered while it is bound to connect_kv
ConnectKv ==
    /\ ctrl.slot = "connect_kv"
    /\ nsock < MaxSockets
    /\ \E result \in ConnectDialogResults, outcome \in ConnectOutcomes :
           Slot(connect_kv(Self, ctrl, result, outcome))

\* connect_action.triggered while it is bound to disconnect_kv
DisconnectKv ==
    /\ ctrl.slot = "disconnect_kv"
    /\ nsock < MaxSockets
    /\ \E answer \in Answers : Slot(disconnect_kv(Self, ctrl, answer))

\* settings_action.triggered
SettingsSlot ==
    \E result \in SettingsDialogResults : Slot(settings(Self, ctrl, result))

NextCtrl == ConnectKv \/ DisconnectKv \/ SettingsSlot

SpecCtrl == Init /\ [][NextCtrl]_vars

\* ------------------------------------------------- module-level functions
\* The functions of command.py and client.py called on their own, with
\* arguments drawn from small sets that hold the documented ranges, their
\* edges and values outside them.
DeviceNos == {<<"D", "M", "1", "0", "0", "0">>, <<"R", "1">>}
FormatArgs == DataFormat \cup {PlainStr(<<".", "X">>), PlainStr(<<"D">>), PlainStr(<<>>)}
TimesArgs == {0 - 2, 0, 1, 2, 5, 12}

YearArgs == {0 - 1, 0, 21, 99, 100}
MonthArgs == {0, 1, 3, 12, 13}
DayArgs == {0, 1, 5, 31, 32}
HourArgs == {0 - 1, 0, 9, 23, 24}
MinuteArgs == {0, 7, 60, 61}
SecondArgs == {0, 60, 61}
WeekArgs == {0 - 1, 0, 6, 7, 10}

ClientVars == <<measure_name, address, fmts, status, client, commands, nsock, closed, call>>

FnReturn(fn, args, r) ==
    /\ fcall' = [fn |-> fn, args |-> args, raised |-> r.raised, out |-> r.out]
    /\ UNCHANGED ClientVars
    /\ UNCHANGED <<ctrl, plot>>

\* one call per run: the functions keep no state between calls
FnMakeReadCommand ==
    /\ fcall = NoFcall
    /\ \E d_type_no \in DeviceNos, d_format \in FormatArgs, times \in TimesArgs,
       py \in EnumFormats :
        FnReturn("make_read_command", <<d_type_no, d_format, times, py>>,
                 make_read_command(d_type_no, d_format, times, py))

FnMakeTimesetCommand ==
    /\ fcall = NoFcall
    /\ \E yy \in YearArgs, mm \in MonthArgs, dd \in DayArgs, HH \in HourArgs,
       MM \in MinuteArgs, SS \in SecondArgs, week \in WeekArgs :
        FnReturn("make_timeset_command", <<yy, mm, dd, HH, MM, SS, week>>,
                 make_timeset_command(yy, mm, dd, HH, MM, SS, week))

\* binary32 numbers with sign bit 0: zero, subnormal, normal, infinite and
\* NaN bit patterns
FloatSamples ==
    {[type |-> "float", sign |-> 0, exp |-> e, mant |-> m] :
        e \in {0, 1, 127, 128, 254, 255}, m \in {0, 1, 1193046, 4194304, 8388607}}

\* the 32 bits of a binary32 number read as an unsigned integer
BitsOf(f) == f.exp * 8388608 + f.mant

ConvertArgs == {BitsOf(f) : f \in FloatSamples} \cup {0 - 1, 12}

FnConvert2WordToDouble ==
    /\ fcall = NoFcall
    /\ \E value \in ConvertArgs :
        LET r == convert_2word_to_double(value)
        IN  FnReturn("convert_2word_to_double", <<value>>,
                     [raised |-> IF r.ok THEN "none" ELSE "struct.error",
                      out |-> IF r.ok THEN r.value ELSE NoResult])

\* A poll of a client configured with one or two measurements, one name,
\* address and format tag each, connected, whose device answers every
\* command: c = KVClient(names, address, fmts); c.connect(...);
\* c.get_plc_value().
PollSizes == {1, 2}
PollFmts == {<<"U">>, <<"S">>, <<"D">>, <<"L">>, <<"H">>}
PollResponses ==
    { <<"1", "2", "\r", "\n">>, <<"-", "3", "4", "\r", "\n">>, <<"1", "0">>,
      <<"1", "A", "\r", "\n">>, <<"F", "F">>, <<"X", "Y", "\r", "\n">>, <<>> }
NameList(n) == [i \in 1..n |-> IF i = 1 THEN "a" ELSE "b"]

FnGetPlcValue ==
    /\ fcall = NoFcall
    /\ \E n \in PollSizes :
         \E fm \in [1..n -> PollFmts], resp \in [1..n -> PollResponses] :
           LET c == connect(KVClientInit(NameList(n), AddressList(n), fm), "2.0", "ok")
               self == [status |-> c.status, client |-> c.client, commands |-> c.commands,
                        nsock |-> c.nsock, closed |-> c.closed]
               r == get_plc_value(self, [k \in 1..n |-> [kind |-> "ok", data |-> resp[k]]])
           IN  FnReturn("get_plc_value", <<fm, resp>>,
                        [raised |-> r.raised, out |-> r.result])

\* client.make_read_commands(address, fmts) for one or two measurements.
\* counts holds the read count of each measurement, for which the function
\* has no parameter; py is the interpreter's Enum.__format__, which the
\* function does not use.
ReadCounts == {1, 5}

FnMakeReadCommands ==
    /\ fcall = NoFcall
    /\ \E n \in PollSizes :
         \E fm \in [1..n -> PollFmts], counts \in [1..n -> ReadCounts], py \in EnumFormats :
           FnReturn("make_read_commands", <<AddressList(n), fm, counts, py>>,
                    [raised |-> "none", out |-> make_read_commands(AddressList(n), fm)])

\* Settings.update called on a new and on a used Settings object
SettingsStates ==
    {SettingsInit,
     [save_dir |-> "/data", filename |-> <<"l", "o", "g">>, interval_value |-> 5,
      interval_unit |-> "min", data_point |-> 500, status |-> SET]}
UpdateArgs ==
    Dirs \X {<<"a", ".", "b">>, <<"r", "u", "n">>} \X IntervalValues \X {"s", "h"}
         \X {10000, 20}

FnSettingsUpdate ==
    /\ fcall = NoFcall
    /\ \E self \in SettingsStates, new_settings \in UpdateArgs :
         LET u == update(self, new_settings)
         IN  FnReturn("update", <<self, new_settings>>,
                      [raised |-> u.raised, out |-> u.settings])

\* no client traffic: an empty configuration, never connected
InitFn ==
    /\ measure_name = <<>>
    /\ address = <<>>
    /\ fmts = <<>>
    /\ Construct(NOT_CONNECTED)

NextFn ==
    \/ FnMakeReadCommand
    \/ FnMakeTimesetCommand
    \/ FnConvert2WordToDouble
    \/ FnGetPlcValue
    \/ FnMakeReadCommands
    \/ FnSettingsUpdate

SpecFn == InitFn /\ [][NextFn]_vars


\* --------------------------------------------------------------- MainPlot
\* add_curve is called once for each curve number, as the window does when
\* it is built; switch_curve_visible is called with any number, also one
\* that has no curve.
PlotStep(p) ==
    /\ plot' = p
    /\ UNCHANGED ClientVars
    /\ UNCHANGED <<fcall, ctrl>>

AddCurve ==
    \E idx \in (1..MaxCurves) \ plot.curves : PlotStep(add_curve(plot, idx))

SwitchCurveVisible ==
    \E idx \in 1..MaxCurves, st \in CurveStatus :
        PlotStep(switch_curve_visible(plot, idx, st))

NextPlot == AddCurve \/ SwitchCurveVisible

SpecPlot == InitFn /\ [][NextPlot]_vars


\* ============================================================== properties
\* the events of kind ev in the log of the last call, in order
LogOf(ev) == SelectSeq(call.log, LAMBDA e : e.ev = ev)

\* the last call was connect() and its socket connect had this outcome
ConnectAttempted(outcome) ==
    /\ call.op = "connect"
    /\ \E i \in 1..Len(call.log) :
           call.log[i].ev = "connect" /\ call.log[i].data = <<outcome>>

\* the socket held before the last call was closed and a socket created by
\* the call, never connected and not closed, has taken its place
SocketReset ==
    /\ call.preSock.id \in closed
    /\ client.id # call.preSock.id
    /\ client.id \notin closed
    /\ client.id = nsock
    /\ client.state = "unconnected"
    /\ \E i \in 1..Len(call.log) :
           call.log[i].ev = "socket" /\ call.log[i].sock = client.id

IsRead == call.op \in {"get_device_name", "get_plc_value"}

\* a send or a recv of the last call failed
CommFailure == \E i \in 1..Len(call.log) :
                   call.log[i].ev \in {"send", "recv"} /\ ~call.log[i].ok

\* C1: a send or recv error during a read operation on an established
\* connection sets the status to ERROR before the error reaches the caller.
\* The code has no handler around send/recv, so this is violated.
C1_ErrorStatusOnCommFailure ==
    (IsRead /\ call.preStatus = CONNECTED /\ call.preSock.state = "connected"
        /\ CommFailure)
    => (call.raised # "none" /\ status = ERROR)

\* C2: when the socket connect of KVClient.connect times out, the socket is
\* closed and replaced by a fresh unconnected one, the status is
\* NOT_CONNECTED and an error reaches the caller.
C2_TimeoutResetsAndPropagates ==
    ConnectAttempted("timeout")
    => (SocketReset /\ status = NOT_CONNECTED /\ call.raised = "OSError")

C2_Witness ==
    /\ ConnectAttempted("timeout")
    /\ call.raised = "OSError"
    /\ call.preSock.id \in closed

\* C3: when the socket connect of KVClient.connect is refused, the socket is
\* closed and replaced by a fresh unconnected one and the status is
\* NOT_CONNECTED before the error reaches the caller.
\* The code catches socket.timeout only, so this is violated.
C3_RefusalResetsAndPropagates ==
    ConnectAttempted("refused")
    => (SocketReset /\ status = NOT_CONNECTED /\ call.raised # "none")

\* C4: a connect call made in status NOT_CONNECTED whose socket connect
\* succeeds leaves the status CONNECTED (and returns normally).
C4_ConnectSuccess ==
    (ConnectAttempted("ok") /\ call.preStatus = NOT_CONNECTED)
    => (status = CONNECTED /\ call.raised = "none")

C4_Witness ==
    /\ ConnectAttempted("ok")
    /\ call.preStatus = NOT_CONNECTED
    /\ client.state = "connected"

\* C5: disconnect, called in any status, closes the current socket, installs
\* a fresh unconnected socket and leaves the status NOT_CONNECTED.
C5_DisconnectResets ==
    call.op = "disconnect"
    => (SocketReset /\ client.timeout = "None" /\ status = NOT_CONNECTED)

C5_Witness ==
    /\ call.op = "disconnect"
    /\ call.preStatus = ERROR
    /\ call.preSock.id \in closed

\* C6: of two disconnect calls in a row neither raises, and the status is
\* NOT_CONNECTED after the first and after the second.
C6_DisconnectTwice ==
    (call.op = "disconnect" /\ call.prev.op = "disconnect")
    => /\ call.prev.raised = "none"
       /\ call.preStatus = NOT_CONNECTED
       /\ call.raised = "none"
       /\ status = NOT_CONNECTED

C6_Witness ==
    /\ call.op = "disconnect"
    /\ call.prev.op = "disconnect"
    /\ Cardinality(closed) >= 2

\* C7: in status ERROR connect does attempt the socket connect, and when the
\* attempt succeeds the status becomes CONNECTED.
C7_ConnectFromError ==
    (call.op = "connect" /\ call.preStatus = ERROR)
    => /\ Len(LogOf("connect")) = 1
       /\ ConnectAttempted("ok") => status = CONNECTED

C7_Witness ==
    /\ call.op = "connect"
    /\ call.preStatus = ERROR
    /\ ConnectAttempted("ok")
    /\ status = CONNECTED

\* C8: connect called in status CONNECTED makes no socket connect attempt,
\* raises nothing and leaves the status CONNECTED and the connection as it is.
C8_ConnectWhileConnected ==
    (call.op = "connect" /\ call.preStatus = CONNECTED)
    => /\ LogOf("connect") = <<>>
       /\ LogOf("close") = <<>>
       /\ call.raised = "none"
       /\ status = CONNECTED
       /\ client.id = call.preSock.id
       /\ client.state = call.preSock.state

C8_Witness ==
    /\ call.op = "connect"
    /\ call.preStatus = CONNECTED
    /\ call.preSock.state = "connected"

\* the lists given to the constructor describe one measurement per position
WellFormedConfig ==
    /\ Len(measure_name) = Len(address)
    /\ Len(address) = Len(fmts)
    /\ \A i, j \in 1..Len(measure_name) : measure_name[i] = measure_name[j] => i = j

\* the binary32 number with the bit pattern n, 0 <= n < 2^31 (sign bit 0)
FloatOfBits(n) ==
    [type |-> "float", sign |-> 0, exp |-> (n \div 8388608) % 256, mant |-> n % 8388608]

\* the value a response to a command stands for
ValueOfResponse(command, bytes) ==
    IF Suffix(command, 3) = <<".", "D", "\r">>
    THEN FloatOfBits(int(bytes).value)
    ELSE [type |-> "int", v |-> int(bytes).value]

\* the k-th round trip of the last call went through and its response decodes
RoundTripOk(k) ==
    /\ 2 * k <= Len(call.log)
    /\ call.log[2 * k - 1].ev = "send" /\ call.log[2 * k - 1].ok
    /\ call.log[2 * k].ev = "recv" /\ call.log[2 * k].ok
    /\ DecodeOk(call.log[2 * k].data)
    /\ int(call.log[2 * k].data).ok
    /\ (\/ int(call.log[2 * k].data).value >= 0
        \/ Suffix(call.log[2 * k - 1].data, 3) # <<".", "D", "\r">>)

\* C9: a successful poll sends the read commands in the insertion order of
\* the configured measurements, one per measurement, and the k-th response,
\* decoded, is stored under the k-th name, in that order.  The configured
\* measurements are the items of self.commands; for a configuration with one
\* name, address and format per measurement they are the constructor's lists.
C9_PollInOrder ==
    (call.op = "get_plc_value" /\ call.raised = "none")
    => /\ Len(call.log) = 2 * Len(commands)
       /\ Len(call.result) = Len(commands)
       /\ \A k \in 1..Len(commands) :
            /\ call.log[2 * k - 1].ev = "send"
            /\ call.log[2 * k - 1].data = commands[k][2]
            /\ call.log[2 * k].ev = "recv"
            /\ call.result[k][1] = commands[k][1]
            /\ call.result[k][2] = ValueOfResponse(commands[k][2], call.log[2 * k].data)
       /\ WellFormedConfig =>
            /\ Len(commands) = Len(measure_name)
            /\ \A k \in 1..Len(measure_name) :
                 /\ commands[k][1] = measure_name[k]
                 /\ commands[k][2] = <<"R", "D", " ">> \o address[k] \o <<".">>
                                        \o fmts[k] \o <<"\r">>

C9_Witness ==
    /\ call.op = "get_plc_value"
    /\ call.raised = "none"
    /\ WellFormedConfig
    /\ Len(measure_name) = 2
    /\ call.result[1][2] # call.result[2][2]
    /\ commands[1][2] # commands[2][2]

\* C10: when a send, a receive or a decode fails for the k-th measurement of
\* a poll, the poll raises at once: the failed round trip is the last one of
\* the call, the round trips before it are those of the first k-1 commands,
\* and the caller gets the exception and no mapping.
C10_PollFailsFast ==
    (call.op = "get_plc_value"
        /\ \E k \in 1..Len(LogOf("send")) : ~RoundTripOk(k))
    => LET k == Len(LogOf("send"))
       IN  /\ call.raised # "none"
           /\ call.result = NoResult
           /\ k <= Len(commands)
           /\ \A i \in 1..(k - 1) : RoundTripOk(i)
           /\ \A i \in 1..k : LogOf("send")[i].data = commands[i][2]
           /\ Len(call.log) \in {2 * k - 1, 2 * k}

C10_Witness ==
    /\ call.op = "get_plc_value"
    /\ call.raised # "none"
    /\ Len(commands) = 2
    /\ Len(LogOf("send")) = 1
    /\ call.log[1].ok

\* ------------------------------------------------------ command.py claims
\* the decimal text of the read counts of TimesArgs
CountText(n) ==
    CASE n = 0 - 2 -> <<"-", "2">> [] n = 0 -> <<"0">> [] n = 1 -> <<"1">>
      [] n = 2 -> <<"2">> [] n = 5 -> <<"5">> [] n = 12 -> <<"1", "2">>

\* C11: make_read_command returns "RD " + address + suffix + "\r" when the
\* count is 1 and "RDS " + address + suffix + " " + count + "\r" for every
\* other count, the suffix being the tag of the DataFormat member given
\* (.U .S .D .L .H).  Violated where format() of the member gives
\* "DataFormat.U" instead of its value.
C11_ReadCommandText ==
    (fcall.fn = "make_read_command" /\ fcall.args[2] \in DataFormat)
    => LET d_type_no == fcall.args[1]
           suffix == <<".", fcall.args[2].name>>
           times == fcall.args[3]
       IN  /\ fcall.raised = "none"
           /\ fcall.out =
                IF times = 1
                THEN <<"R", "D", " ">> \o d_type_no \o suffix \o <<"\r">>
                ELSE <<"R", "D", "S", " ">> \o d_type_no \o suffix \o <<" ">>
                       \o CountText(times) \o <<"\r">>

\* C12: for every format tag of {U, S, D, L, H} make_read_command returns a
\* command without raising, and for every other tag it fails with
\* InvalidFormatError and returns no command.  The code checks nothing.
C12_FormatTagValidated ==
    fcall.fn = "make_read_command"
    => IF fcall.args[2] \in DataFormat
       THEN fcall.raised = "none" /\ fcall.out # <<>>
       ELSE fcall.raised = "InvalidFormatError" /\ fcall.out = <<>>

\* C13: for a count of 0 or a negative count make_read_command fails with
\* InvalidArgumentError and returns no command.  The code checks nothing.
C13_CountValidated ==
    (fcall.fn = "make_read_command" /\ fcall.args[3] <= 0)
    => (fcall.raised = "InvalidArgumentError" /\ fcall.out = <<>>)

\* the documented ranges of make_timeset_command's arguments
TimesetInRange(a) ==
    /\ a[1] \in 0..99
    /\ a[2] \in 1..12
    /\ a[3] \in 1..31
    /\ a[4] \in 0..23
    /\ a[5] \in 0..60
    /\ a[6] \in 0..60
    /\ a[7] \in 0..6

\* C14: when a field lies outside its documented range make_timeset_command
\* fails with InvalidArgumentError and returns no command.  The code checks
\* nothing.
C14_TimesetValidated ==
    (fcall.fn = "make_timeset_command" /\ ~TimesetInRange(fcall.args))
    => (fcall.raised = "InvalidArgumentError" /\ fcall.out = <<>>)

\* the two decimal digits of n in 0..99
TwoDigits(n) == <<DigitChar(n \div 10), DigitChar(n % 10)>>

\* C15: for in-range arguments make_timeset_command returns "WRT ", the
\* year, month, day, hour, minute and second as two zero-padded digits each
\* and the weekday as one digit, separated by single spaces, then "\r".
C15_TimesetText ==
    (fcall.fn = "make_timeset_command" /\ TimesetInRange(fcall.args))
    => LET a == fcall.args
       IN  /\ fcall.raised = "none"
           /\ fcall.out = <<"W", "R", "T", " ">> \o TwoDigits(a[1]) \o <<" ">>
                            \o TwoDigits(a[2]) \o <<" ">> \o TwoDigits(a[3]) \o <<" ">>
                            \o TwoDigits(a[4]) \o <<" ">> \o TwoDigits(a[5]) \o <<" ">>
                            \o TwoDigits(a[6]) \o <<" ">> \o <<DigitChar(a[7])>> \o <<"\r">>
           /\ Len(fcall.out) = 24

C15_Witness ==
    /\ fcall.fn = "make_timeset_command"
    /\ fcall.args = <<21, 3, 5, 9, 7, 0, 6>>
    /\ fcall.out = <<"W", "R", "T", " ", "2", "1", " ", "0", "3", " ", "0", "5", " ",
                     "0", "9", " ", "0", "7", " ", "0", "0", " ", "6", "\r">>

\* --------------------------------------------------------- decoding claims
\* (the literals below are read without the model's int(): by position)
HexDigits == Digits \cup {"A", "B", "C", "D", "E", "F", "a", "b", "c", "d", "e", "f"}
HexDigitVal(c) ==
    CASE c \in Digits -> DigitVal(c)
      [] c \in {"A", "a"} -> 10 [] c \in {"B", "b"} -> 11 [] c \in {"C", "c"} -> 12
      [] c \in {"D", "d"} -> 13 [] c \in {"E", "e"} -> 14 [] c \in {"F", "f"} -> 15

\* the response without its line terminator and surrounding blanks
Body(text) == Strip(text)
Unsigned(text) ==
    IF Body(text) # <<>> /\ Head(Body(text)) \in {"+", "-"} THEN Tail(Body(text)) ELSE Body(text)
Negative(text) == Body(text) # <<>> /\ Head(Body(text)) = "-"

RECURSIVE PositionalValue(_, _)
PositionalValue(s, base) ==
    IF s = <<>> THEN 0
    ELSE base * PositionalValue(SubSeq(s, 1, Len(s) - 1), base) + HexDigitVal(s[Len(s)])

IsLiteral(text, digits) == Unsigned(text) # <<>> /\ SeqRange(Unsigned(text)) \subseteq digits
LiteralValue(text, base) ==
    IF Negative(text) THEN 0 - PositionalValue(Unsigned(text), base)
    ELSE PositionalValue(Unsigned(text), base)

\* the response is a literal in the base of the format tag
ValidFor(fmt, text) ==
    IF fmt = <<"H">> THEN IsLiteral(text, HexDigits) ELSE IsLiteral(text, Digits)

PollCalled == fcall.fn = "get_plc_value"
PollFmt(k) == fcall.args[1][k]
PollResp(k) == fcall.args[2][k]
PollN == Len(fcall.args[1])

\* every response of the poll is one its format can carry
PollAllValid ==
    \A k \in 1..PollN :
        /\ ValidFor(PollFmt(k), PollResp(k))
        /\ PollFmt(k) = <<"D">> => ~Negative(PollResp(k))

\* C16: for a measurement configured with the hex16 format (.H) the value
\* returned by a poll is the integer whose hexadecimal representation is the
\* response text.  The code parses every response in base 10.
C16_HexDecodedBase16 ==
    (PollCalled /\ PollAllValid)
    => /\ fcall.raised = "none"
       /\ \A k \in 1..PollN :
            PollFmt(k) = <<"H">>
            => fcall.out[k][2] = [type |-> "int", v |-> LiteralValue(PollResp(k), 16)]

\* C17: when a read response is not a valid integer literal, decoding fails
\* with an error that reaches the caller (ValueError, the code's
\* malformed-response error) and no value is produced.
C17_MalformedResponseRaises ==
    (PollCalled /\ \E k \in 1..PollN : ~ValidFor(PollFmt(k), PollResp(k)))
    => /\ fcall.raised # "none"
       /\ fcall.out = NoResult
       /\ (\A k \in 1..PollN :
              IsLiteral(PollResp(k), Digits) => ~(PollFmt(k) = <<"D">> /\ Negative(PollResp(k))))
          => fcall.raised = "ValueError"

C17_Witness ==
    /\ PollCalled
    /\ PollN = 2
    /\ IsLiteral(PollResp(1), Digits)
    /\ PollFmt(2) = <<"U">>
    /\ PollResp(2) = <<"X", "Y", "\r", "\n">>
    /\ fcall.raised = "ValueError"

\* C19: convert_2word_to_double round-trips: for a binary32 number f, the
\* conversion of its 32-bit big-endian bit pattern, taken as an unsigned
\* integer, is f; the integer is reinterpreted, not converted numerically
\* (1065353216 = 0x3F800000 gives 1.0, not 1065353216.0).
C19_PackedFloatRoundTrip ==
    fcall.fn = "convert_2word_to_double"
    => /\ \A f \in FloatSamples :
            fcall.args[1] = BitsOf(f) => (fcall.raised = "none" /\ fcall.out = f)
       /\ fcall.args[1] = 1065353216
            => fcall.out = [type |-> "float", sign |-> 0, exp |-> 127, mant |-> 0]

C19_Witness ==
    /\ fcall.fn = "convert_2word_to_double"
    /\ fcall.args[1] = 1065353216 + 1193046
    /\ fcall.out = [type |-> "float", sign |-> 0, exp |-> 127, mant |-> 1193046]

\* C20: in a poll the packed-float conversion is applied to a measurement's
\* decoded integer exactly when its format tag is D; for U, S, L and H the
\* value returned is the decoded integer itself.
C20_FloatIffD ==
    (PollCalled /\ fcall.raised = "none")
    => /\ Len(fcall.out) = PollN
       /\ \A k \in 1..PollN :
            /\ fcall.out[k][2].type = "float" <=> PollFmt(k) = <<"D">>
            /\ PollFmt(k) = <<"D">>
                 => fcall.out[k][2] = FloatOfBits(LiteralValue(PollResp(k), 10))
            /\ PollFmt(k) \in {<<"U">>, <<"S">>, <<"L">>}
                 => fcall.out[k][2] = [type |-> "int", v |-> LiteralValue(PollResp(k), 10)]
            /\ PollFmt(k) = <<"H">> => DOMAIN fcall.out[k][2] = {"type", "v"}

C20_Witness ==
    /\ PollCalled
    /\ fcall.raised = "none"
    /\ PollN = 2
    /\ PollFmt(1) = <<"D">> /\ fcall.out[1][2].type = "float"
    /\ PollFmt(2) = <<"H">> /\ fcall.out[2][2].type = "int"

\* C18: the client's status always holds exactly one of NOT_CONNECTED,
\* CONNECTED and ERROR, and a step of the controller changes it only by
\* calling KVClient.connect or KVClient.disconnect, to the status that
\* method leaves; no slot assigns it.
C18_StatusOwnedByClient ==
    /\ [](status \in Status /\ Cardinality(status) = 1)
    /\ [][status' # status =>
            /\ call' # call
            /\ call'.preStatus = status
            /\ \/ /\ call'.op = "connect"
                  /\ \E outcome \in ConnectOutcomes :
                         status' = connect(Self, "2.0", outcome).status
               \/ /\ call'.op = "disconnect"
                  /\ status' = disconnect(Self).status]_vars
\* the settings slot has stored new settings while the client was
\* connected through connect_kv, and the status is still CONNECTED
C18_Witness ==
    /\ ctrl.handler = "settings"
    /\ ctrl.view = <<"set_settings", "ready">>
    /\ ctrl.settings.save_dir = "/data"
    /\ call.op = "connect"
    /\ status = CONNECTED

\* -------------------------------------------------- client behaviour claims
\* C21: in every get_device_name and get_plc_value call the socket is used
\* for sends and receives only, the first call is a send, a send that went
\* through is followed at once by one receive, and a receive is followed by
\* the next send or by nothing: never two sends without a receive between.
C21_OneCommandPerRoundTrip ==
    IsRead
    => /\ \A i \in 1..Len(call.log) : call.log[i].ev \in {"send", "recv"}
       /\ call.log # <<>> => call.log[1].ev = "send"
       /\ \A i \in 1..Len(call.log) :
            /\ (call.log[i].ev = "send" /\ i < Len(call.log))
                 => (call.log[i].ok /\ call.log[i + 1].ev = "recv")
            /\ (call.log[i].ev = "send" /\ i = Len(call.log)) => ~call.log[i].ok
            /\ (call.log[i].ev = "recv" /\ i < Len(call.log))
                 => (call.log[i].ok /\ call.log[i + 1].ev = "send")
       /\ Len(LogOf("recv")) <= Len(LogOf("send"))
       /\ Len(LogOf("send")) <= Len(LogOf("recv")) + 1

C21_Witness ==
    /\ call.op = "get_plc_value"
    /\ call.raised = "none"
    /\ Len(LogOf("send")) = 2
    /\ Len(LogOf("recv")) = 2

\* C22: the command client.make_read_commands builds for a measurement is
\* the one command.make_read_command builds for the same address, the
\* DataFormat member of the same tag and the measurement's read count: RD
\* for count 1, RDS with the count otherwise.  Violated: the client always
\* writes RD, has no read count, and formats the tag itself.
C22_ClientUsesCommandBuilder ==
    fcall.fn = "make_read_commands"
    => LET addr == fcall.args[1]
           fm == fcall.args[2]
           counts == fcall.args[3]
           py == fcall.args[4]
       IN  /\ Len(fcall.out) = Len(addr)
           /\ \A i \in 1..Len(addr) :
                fcall.out[i] =
                    make_read_command(addr[i], DataFormatMember(fm[i][1]), counts[i], py).out

\* C23: the status is ERROR after a call only if it was ERROR before it or
\* the call was a read on a CONNECTED client that met a send or receive
\* failure; after a connect or a disconnect, returned or raised, the status
\* is not ERROR, and a call made in NOT_CONNECTED does not end in ERROR.
C23_ErrorOnlyFromConnectedRead ==
    /\ call.op \in {"connect", "disconnect"} => status # ERROR
    /\ call.preStatus = NOT_CONNECTED => status # ERROR
    /\ (status = ERROR /\ call.preStatus # ERROR)
         => (call.preStatus = CONNECTED /\ IsRead /\ CommFailure)

\* a connect call has failed without being handled, and a status was kept
C23_Witness ==
    /\ ConnectAttempted("refused")
    /\ call.raised # "none"
    /\ call.preStatus = NOT_CONNECTED
    /\ status = NOT_CONNECTED

\* C25: connect called in status CONNECTED leaves the socket as it was, its
\* timeout included.  Violated: settimeout(timeout) is called before the
\* status is tested.
C25_ConnectKeepsTimeout ==
    (call.op = "connect" /\ call.preStatus = CONNECTED)
    => client = call.preSock

\* C26: a successful get_plc_value sends one command and returns one entry
\* for every element of the measure_name list given to the constructor.
\* Violated: dict(zip(...)) keeps one item per distinct name and stops at
\* the shortest of the three lists.
C26_OneEntryPerMeasurement ==
    (call.op = "get_plc_value" /\ call.raised = "none")
    => /\ Len(call.result) = Len(measure_name)
       /\ Len(LogOf("send")) = Len(measure_name)

InPlot(item) == item \in plot.items

\* C24: for every curve of the plot and the status last given for it to
\* switch_curve_visible: with VISIBLE the curve and its region are in the
\* plot, with CURVE_ONLY the curve is and the region is not, with INVISIBLE
\* neither is; and no region is in the plot without its curve.
C24_PlotMatchesLastStatus ==
    \A idx \in 1..MaxCurves :
        /\ (idx \in plot.curves /\ plot.given[idx] = VISIBLE)
             => (InPlot(CurveItem(idx)) /\ InPlot(RegionItem(idx)))
        /\ (idx \in plot.curves /\ plot.given[idx] = CURVE_ONLY)
             => (InPlot(CurveItem(idx)) /\ ~InPlot(RegionItem(idx)))
        /\ (idx \in plot.curves /\ plot.given[idx] = INVISIBLE)
             => (~InPlot(CurveItem(idx)) /\ ~InPlot(RegionItem(idx)))
        /\ InPlot(RegionItem(idx)) => InPlot(CurveItem(idx))

\* a curve shown without its region was hidden
C24_Witness ==
    /\ plot.call.op = "switch_curve_visible"
    /\ plot.call.raised = "none"
    /\ plot.call.status = INVISIBLE
    /\ plot.given[1] = INVISIBLE
    /\ plot.given[2] = CURVE_ONLY
    /\ plot.items = {CurveItem(2)}

\* ------------------------------------------------------ controller claims
\* C28: after any sequence of connect_kv and disconnect_kv the connect
\* action is bound to disconnect_kv exactly when the client status is
\* CONNECTED and to connect_kv otherwise; the controller calls
\* KVClient.connect only in a status other than CONNECTED and
\* KVClient.disconnect only in a status other than NOT_CONNECTED.
C28_SlotFollowsStatus ==
    /\ ctrl.slot \in {"connect_kv", "disconnect_kv"}
    /\ ctrl.slot = "disconnect_kv" <=> status = CONNECTED
    /\ call.op = "connect" => call.preStatus # CONNECTED
    /\ call.op = "disconnect" => call.preStatus # NOT_CONNECTED

\* connected, disconnected with Yes, then a connect that raised
C28_Witness ==
    /\ ctrl.handler = "connect_kv"
    /\ ctrl.view = <<"error">>
    /\ ctrl.slot = "connect_kv"
    /\ call.op = "connect"
    /\ call.raised # "none"
    /\ call.prev.op = "disconnect"
    /\ status = NOT_CONNECTED

\* C29: a slot calls view.ready() only when the client status is CONNECTED
\* and the most recent Settings.update call succeeded; connecting before any
\* settings were applied, or after an update failed, does not call it.
\* Violated: Status.SET and Status.NOT_SET are the same value, so the test
\* of the settings status in connect_kv always passes.
C29_ReadyOnlyWhenSet ==
    "ready" \in SeqRange(ctrl.view)
    => (status = CONNECTED /\ ctrl.updated = "ok")

\* C30: when Settings.update raises DirectoryExistsError the Settings object
\* is as it was before the call.  Violated: filename, interval_value,
\* interval_unit and data_point are assigned before save_dir is tested.
C30_FailedUpdateChangesNothing ==
    (fcall.fn = "update" /\ fcall.raised = "DirectoryExistsError")
    => fcall.out = fcall.args[1]

====
